---- MODULE Spec2Model ----
(***************************************************************************)
(* Model of swift/codegen/lib/options.py: the tag-indexed registry of      *)
(* command-line Options (_options), the self-registering Option            *)
(* constructor, Option.add_to and the lazy retrieval get(tags).            *)
(*                                                                         *)
(* An Option object is identified by its construction index (1, 2, ...).   *)
(* The registry is a Python defaultdict(list): a function whose DOMAIN is  *)
(* the set of keys present, each mapped to a list of Option ids.           *)
(***************************************************************************)
EXTENDS Naturals, Sequences, FiniteSets, TLC

VARIABLES
    _options,   \* the module-level defaultdict(list): key -> list of Option ids
    objs,       \* the Option objects, by id: [args, kwargs] (self.args, self.kwargs)
    declared,   \* history: the arguments each Option was constructed with
    gen,        \* the generator object most recently returned by get
    req,        \* history: the tags argument of that get call
    baseN,      \* history: the number of Options that existed at that get call
    ctorAt,     \* history: for each Option constructed since that get call,
                \* the position the generator had reached in its tag list
    out,        \* what each for-loop over gen has collected so far, one list per loop
    looping,    \* a for-loop over gen is in progress
    raised,     \* an exception escaped from a registry operation
    parsers,    \* the parser collaborators: the add_argument calls each received
    applied     \* history: the Options add_to was called on, per parser

vars == <<_options, objs, declared, gen, req, baseN, ctorAt, out, looping, raised, parsers, applied>>

----------------------------------------------------------------------------
(* Bounds of the model *)

MaxNew == 2       \* Options constructed after module initialization
MaxPasses == 2    \* for-loops run over one returned generator
MaxApply == 2     \* add_to calls

\* the tags lists a new Option may be declared with (besides None): empty,
\* the wildcard itself, a tag the shipped declarations use ("ql"), that tag
\* with one nothing shipped uses ("other"), with the wildcard, and repeated
OptTagLists ==
    {<<>>, <<"*">>, <<"ql">>, <<"ql", "other">>, <<"*", "ql">>, <<"ql", "ql">>}

\* the tag collections a caller may request, as iterated
Requests ==
    {<<>>, <<"*">>, <<"ql">>, <<"other">>, <<"ql", "other">>, <<"other", "ql">>,
     <<"*", "ql">>, <<"ql", "ql">>}

\* the parser collaborators
Parsers == {"p1", "p2"}

----------------------------------------------------------------------------
(* Sequence helpers *)

Range(s) == {s[i] : i \in 1..Len(s)}

Count(x, s) == Cardinality({i \in 1..Len(s) : s[i] = x})

IsPrefix(s, t) == Len(s) <= Len(t) /\ \A i \in 1..Len(s) : s[i] = t[i]

SeqsUpTo(S, n) == UNION {[1..m -> S] : m \in 0..n}

RECURSIVE Flatten(_)
Flatten(ss) == IF ss = <<>> THEN <<>> ELSE Head(ss) \o Flatten(Tail(ss))

----------------------------------------------------------------------------
(* The registry: collections.defaultdict(list) *)

WILDCARD == "*"

EmptyDict == <<>>

\* variant: d[k] on a plain dict, where a missing key raises KeyError
PlainGetItem(d, k) ==
    IF k \in DOMAIN d
    THEN [ok |-> TRUE, dict |-> d, value |-> d[k]]
    ELSE [ok |-> FALSE, dict |-> d, value |-> <<>>]

\* d[k] on a defaultdict(list): a missing key is inserted with a new empty
\* list, which is returned; the lookup never raises
GetItem(d, k) ==
    IF k \in DOMAIN d
    THEN [ok |-> TRUE, dict |-> d, value |-> d[k]]
    ELSE [ok |-> TRUE, dict |-> d @@ (k :> <<>>), value |-> <<>>]

\* variant: _options[t].insert(0, self)
PrependTo(d, t, self) ==
    LET r == PlainGetItem(d, t)
    IN  IF r.ok THEN [d EXCEPT ![t] = <<self>> \o @] ELSE d @@ (t :> <<self>>)

\* _options[t].append(self)
AppendTo(d, t, self) ==
    LET r == GetItem(d, t)
    IN  IF r.ok /\ t \in DOMAIN r.dict
        THEN [r.dict EXCEPT ![t] = Append(@, self)]
        ELSE r.dict

----------------------------------------------------------------------------
(* Option.__init__ *)

\* the tags argument: None (also the default when omitted) or a list
NoneTags == [none |-> TRUE, items |-> <<>>]
TagList(ts) == [none |-> FALSE, items |-> ts]

\* tags = tags or []
TagsOrEmpty(tags) == IF tags.none \/ tags.items = <<>> THEN <<>> ELSE tags.items

\* variant: only the first tag is registered
RegisterFirst(d, ts, self) ==
    LET r == PlainGetItem(d, Head(ts))
    IN  IF ts = <<>> THEN d
        ELSE IF r.ok THEN [d EXCEPT ![Head(ts)] = Append(@, self)]
        ELSE d @@ (Head(ts) :> <<self>>)

\* for t in tags: _options[t].append(self)
RECURSIVE RegisterAll(_, _, _)
RegisterAll(d, ts, self) ==
    IF ts = <<>> THEN d
    ELSE RegisterAll(AppendTo(d, Head(ts), self), Tail(ts), self)

\* variant: "if tags is not None" in place of "if tags"
RegisterIfNotNone(d, tags, self) ==
    IF ~tags.none
    THEN RegisterAll(d, tags.items, self)
    ELSE AppendTo(d, WILDCARD, self)

\* the registration part of the constructor: the registry after it
Register(d, tags, self) ==
    LET ts == TagsOrEmpty(tags)
    IN  IF ts # <<>>
        THEN RegisterAll(d, ts, self)
        ELSE AppendTo(d, WILDCARD, self)

\* the fields the constructor stores on the new object
NewObject(args, kwargs) == [args |-> args, kwargs |-> kwargs]

\* the whole constructor, on a state [reg, objs, declared]
Construct(st, d) ==
    [reg      |-> Register(st.reg, d.tags, Len(st.objs) + 1),
     objs     |-> Append(st.objs, NewObject(d.args, d.kwargs)),
     declared |-> Append(st.declared, d)]

----------------------------------------------------------------------------
(* _init_options: the seven shipped declarations *)

Decl(args, kwargs, tags) == [args |-> args, kwargs |-> kwargs, tags |-> tags]

ShippedDecls == <<
    Decl(<<"--verbose", "-v">>, {<<"action", "store_true">>}, NoneTags),
    Decl(<<"--schema">>, {<<"type", "_abspath">>, <<"default", "codegen/schema.yml">>},
         TagList(<<"schema">>)),
    Decl(<<"--dbscheme">>, {<<"type", "_abspath">>, <<"default", "ql/lib/swift.dbscheme">>},
         TagList(<<"dbscheme">>)),
    Decl(<<"--ql-output">>,
         {<<"type", "_abspath">>, <<"default", "ql/lib/codeql/swift/generated">>},
         TagList(<<"ql">>)),
    Decl(<<"--ql-stub-output">>,
         {<<"type", "_abspath">>, <<"default", "ql/lib/codeql/swift/elements">>},
         TagList(<<"ql">>)),
    Decl(<<"--codeql-binary">>, {<<"default", "codeql">>}, TagList(<<"ql">>)),
    Decl(<<"--trap-output">>, {<<"type", "_abspath">>, <<"required", "True">>},
         TagList(<<"trap">>)) >>

RECURSIVE RunDecls(_, _)
RunDecls(st, ds) ==
    IF ds = <<>> THEN st ELSE RunDecls(Construct(st, Head(ds)), Tail(ds))

\* the state module import leaves: _options = defaultdict(list), then _init_options()
_init_options ==
    RunDecls([reg |-> EmptyDict, objs |-> <<>>, declared |-> <<>>], ShippedDecls)

NumShipped == Len(ShippedDecls)

----------------------------------------------------------------------------
(* get: the generator expression                                           *)
(*   (o for tag in ('*',) + tuple(tags) for o in _options[tag])            *)
(* The outermost iterable is evaluated when get is called; _options[tag]   *)
(* is evaluated when the iteration reaches the tag, and the list iterator  *)
(* over it reads the live list.                                            *)

NoGen == [tags |-> <<>>, ti |-> 0, ei |-> 0, status |-> "none"]

\* variant: the wildcard is iterated last
getWildcardLast(tags) ==
    [tags |-> tags \o <<WILDCARD>>, ti |-> 0, ei |-> 0, status |-> "created"]

\* variant: the wildcard is left out
getNoWildcard(tags) == [tags |-> tags, ti |-> 0, ei |-> 0, status |-> "created"]

get(tags) == [tags |-> <<WILDCARD>> \o tags, ti |-> 0, ei |-> 0, status |-> "created"]

\* variant: the returned value is re-iterable, each iter() starting afresh
IterRestart(g) ==
    IF g.status = "none" THEN g ELSE [g EXCEPT !.ti = 0, !.ei = 0, !.status = "created"]

\* iter(g), which a for-loop calls first: a generator is its own iterator
Iter(g) == g

\* variant: the lists are read when get is called (a list, not a generator):
\* the registry only grows, so that is the Options that existed at the call
InnerListAtCall(d, k) == SelectSeq(d[k], LAMBDA o : o <= baseN)

\* the list the inner loop iterates: the registry's own list object under
\* key k, read as it is now
InnerList(d, k) == d[k]

\* the list iterator's test for a next element, i elements consumed so far
HasNext(lst, i) == i < Len(lst)

\* One next() on the generator g against registry d: runs until the next
\* yield, the end (StopIteration) or an exception.
\*   dict: the registry afterwards; gen: the generator afterwards;
\*   yield: <<o>> if Option o was yielded, <<>> otherwise; ok: no exception.
RECURSIVE Resume(_, _)
Resume(d, g) ==
    IF g.status \in {"none", "finished"}
    THEN [dict |-> d, gen |-> g, yield |-> <<>>, ok |-> TRUE]
    ELSE IF g.status = "suspended" /\ HasNext(InnerList(d, g.tags[g.ti]), g.ei)
    THEN [dict |-> d, gen |-> [g EXCEPT !.ei = g.ei + 1],
          yield |-> <<InnerList(d, g.tags[g.ti])[g.ei + 1]>>, ok |-> TRUE]
    ELSE IF g.ti = Len(g.tags)
    THEN [dict |-> d, gen |-> [g EXCEPT !.status = "finished"], yield |-> <<>>, ok |-> TRUE]
    ELSE LET r == GetItem(d, g.tags[g.ti + 1])
         IN  IF r.ok
             THEN Resume(r.dict, [g EXCEPT !.ti = g.ti + 1, !.ei = 0, !.status = "suspended"])
             ELSE [dict |-> r.dict, gen |-> [g EXCEPT !.status = "finished"],
                   yield |-> <<>>, ok |-> FALSE]

\* the position of g in its tag list: 0 before the first next(), past the end
\* once finished
Pos(g) == IF g.status = "finished" THEN Len(g.tags) + 1 ELSE g.ti

----------------------------------------------------------------------------
(* Option.add_to *)

\* variant: the directives are not forwarded
AddArgumentNoKwargs(o) == [args |-> o.args, kwargs |-> {}]

\* parser.add_argument(*self.args, **self.kwargs): the call the parser receives
AddArgument(o) == [args |-> o.args, kwargs |-> o.kwargs]

\* the calls parser p has received after self.add_to(p)
AddTo(log, self) == Append(log, AddArgument(self))

\* the number of add_argument calls made so far, over all parsers
RECURSIVE SumLen(_, _)
SumLen(f, S) ==
    IF S = {} THEN 0
    ELSE LET p == CHOOSE q \in S : TRUE IN Len(f[p]) + SumLen(f, S \ {p})

Calls(ps) == SumLen(ps, DOMAIN ps)

----------------------------------------------------------------------------
(* Initial state: after module import *)

Init ==
    /\ _options = _init_options.reg
    /\ objs = _init_options.objs
    /\ declared = _init_options.declared
    /\ gen = NoGen
    /\ req = <<>>
    /\ baseN = NumShipped
    /\ ctorAt = <<>>
    /\ out = <<>>
    /\ looping = FALSE
    /\ raised = FALSE
    /\ parsers = [p \in Parsers |-> <<>>]
    /\ applied = [p \in Parsers |-> <<>>]

----------------------------------------------------------------------------
(* Actions *)

NewDecls ==
    {Decl(<<"--extra", "-x">>, {<<"required", "True">>}, t) :
        t \in {NoneTags} \cup {TagList(ts) : ts \in OptTagLists}}

\* Option(*args, tags=..., **kwargs)
Option(d) ==
    /\ Len(objs) < NumShipped + MaxNew
    /\ LET st == Construct([reg |-> _options, objs |-> objs, declared |-> declared], d)
       IN  /\ _options' = st.reg
           /\ objs' = st.objs
           /\ declared' = st.declared
    /\ ctorAt' = IF gen.status = "none" THEN ctorAt ELSE Append(ctorAt, Pos(gen))
    /\ baseN' = IF gen.status = "none" THEN Len(objs) + 1 ELSE baseN
    /\ UNCHANGED <<gen, req, out, looping, raised, parsers, applied>>

\* g = get(tags)
GetCall(tags) ==
    /\ ~looping
    /\ gen' = get(tags)
    /\ req' = tags
    /\ baseN' = Len(objs)
    /\ ctorAt' = <<>>
    /\ out' = <<>>
    /\ UNCHANGED <<_options, objs, declared, looping, raised, parsers, applied>>

\* for o in g: ...   (the loop starts)
ForLoop ==
    /\ gen.status # "none"
    /\ ~looping
    /\ Len(out) < MaxPasses
    /\ gen' = Iter(gen)
    /\ out' = Append(out, <<>>)
    /\ looping' = TRUE
    /\ UNCHANGED <<_options, objs, declared, req, baseN, ctorAt, raised, parsers, applied>>

\* the loop's next(g): one more Option collected, or the loop ends
LoopNext ==
    /\ looping
    /\ LET r == Resume(_options, gen)
       IN  /\ _options' = r.dict
           /\ gen' = r.gen
           /\ raised' = (raised \/ ~r.ok)
           /\ IF r.yield # <<>>
              THEN /\ out' = [out EXCEPT ![Len(out)] = @ \o r.yield]
                   /\ looping' = TRUE
              ELSE /\ out' = out
                   /\ looping' = FALSE
    /\ UNCHANGED <<objs, declared, req, baseN, ctorAt, parsers, applied>>

\* o.add_to(p)
add_to(o, p) ==
    /\ o \in 1..Len(objs)
    /\ p \in Parsers
    /\ Calls(parsers) < MaxApply
    /\ parsers' = [parsers EXCEPT ![p] = AddTo(@, objs[o])]
    /\ applied' = [applied EXCEPT ![p] = Append(@, o)]
    /\ UNCHANGED <<_options, objs, declared, gen, req, baseN, ctorAt, out, looping, raised>>

Next ==
    \/ \E d \in NewDecls : Option(d)
    \/ \E tags \in Requests : GetCall(tags)
    \/ ForLoop
    \/ LoopNext

\* the registry and its retrieval: construction, get and iteration
Spec == Init /\ [][Next]_vars

\* the apply side: add_to reads objs and writes parsers only, and no other
\* action reads parsers
NextApply ==
    \/ \E d \in NewDecls : Option(d)
    \/ \E o \in 1..Len(objs), p \in Parsers : add_to(o, p)

SpecApply == Init /\ [][NextApply]_vars

\* the shipped registry: no Option is constructed after module import, and
\* the caller requests any set of the four shipped tags, in any iteration order
ShippedTags == {"schema", "dbscheme", "ql", "trap"}

ShippedRequests ==
    {s \in SeqsUpTo(ShippedTags, Cardinality(ShippedTags)) :
        \A i, j \in 1..Len(s) : s[i] = s[j] => i = j}

NextShipped ==
    \/ \E tags \in ShippedRequests : GetCall(tags)
    \/ ForLoop
    \/ LoopNext

SpecShipped == Init /\ [][NextShipped]_vars

----------------------------------------------------------------------------
(* Vocabulary of the properties *)

\* the k-th for-loop over the current generator has run to its end
PassDone(k) == Len(out) > k \/ (Len(out) = k /\ ~looping)

\* no Option has been constructed since the current get call
Quiet == Len(objs) = baseN

\* the sequence the registry holds under tag t (none if the key is absent)
SeqOf(t) == IF t \in DOMAIN _options THEN _options[t] ELSE <<>>

\* the tags Option o was declared with, as a list and as a set
ItemsOf(o) == declared[o].tags.items
TagSetOf(o) == Range(ItemsOf(o))

\* the keys Option o is registered under
KeysOf(o) == {k \in DOMAIN _options : o \in Range(_options[k])}

\* the keys the declaration of o targets: its tags, or the wildcard if it has none
TargetsOf(o) == IF ItemsOf(o) = <<>> THEN {WILDCARD} ELSE TagSetOf(o)

Sorted(s) == \A i, j \in 1..Len(s) : i < j => s[i] <= s[j]

\* no Option was declared with tag t
Undeclared(t) == \A o \in 1..Len(declared) : t \notin TargetsOf(o)

----------------------------------------------------------------------------
(* C1: with the registry unchanged since the call, one full iteration of   *)
(* get(T) yields the wildcard sequence followed by the registry sequence   *)
(* of each requested tag, in the order requested, nothing dropped,         *)
(* reordered or deduplicated.                                              *)
GetYieldsConcatenation ==
    (gen.status # "none" /\ PassDone(1) /\ Quiet) =>
        out[1] = Flatten([j \in 1..(Len(req) + 1) |->
                            IF j = 1 THEN SeqOf(WILDCARD) ELSE SeqOf(req[j - 1])])

GetYieldsConcatenationWitness ==
    /\ PassDone(1) /\ Quiet
    /\ req = <<"other", "ql">>
    /\ Len(SeqOf(WILDCARD)) = 2
    /\ Len(SeqOf("other")) = 1
    /\ Len(out[1]) = 7

(* C2, as claimed: a second iteration of the value get(T) returned, with   *)
(* the registry unchanged, yields the same sequence as the first.          *)
SecondIterationRepeatsFirst ==
    (PassDone(2) /\ Quiet) => out[2] = out[1]

(* C2, amended: the value get(T) returns is a one-shot generator; every    *)
(* iteration of it after the first yields no Option at all.                *)
LaterIterationsYieldNothing ==
    \A k \in 2..Len(out) : out[k] = <<>>

LaterIterationsYieldNothingWitness ==
    /\ PassDone(2) /\ Quiet
    /\ Len(out[1]) >= 4
    /\ out[2] = <<>>

(* C3, as claimed: unless an Option is constructed, no step changes the    *)
(* registry mapping: its set of keys and the sequence under each key stay  *)
(* the same through get and the iteration of its result.                   *)
RegistryReadOnlyAfterInit ==
    [][Len(objs') = Len(objs) => _options' = _options]_vars

(* C4, as claimed: an Option with a non-empty tag collection is registered *)
(* only under its declared tags and never under the wildcard; an Option    *)
(* with no tags (None or empty) is registered only under the wildcard.     *)
TaggedNeverUnderWildcard ==
    \A o \in 1..Len(declared) :
        IF ItemsOf(o) # <<>>
        THEN KeysOf(o) \subseteq TagSetOf(o) /\ WILDCARD \notin KeysOf(o)
        ELSE KeysOf(o) = {WILDCARD}

(* C4, amended: an Option with a non-empty tag collection is registered    *)
(* under exactly its declared tags, hence under the wildcard only when the *)
(* wildcard is one of them; an Option with no tags (None or empty) is      *)
(* registered only under the wildcard.                                     *)
RegisteredUnderDeclaredTags ==
    \A o \in 1..Len(declared) :
        IF ItemsOf(o) # <<>>
        THEN KeysOf(o) = TagSetOf(o)
        ELSE KeysOf(o) = {WILDCARD}

RegisteredUnderDeclaredTagsWitness ==
    /\ declared[1].tags = NoneTags /\ KeysOf(1) = {WILDCARD}
    /\ \E a, b \in (NumShipped + 1)..Len(declared) :
          /\ declared[a].tags = TagList(<<"*", "ql">>) /\ KeysOf(a) = {WILDCARD, "ql"}
          /\ declared[b].tags = TagList(<<>>) /\ KeysOf(b) = {WILDCARD}

(* C5: no step removes, replaces or reorders an entry of the registry; a   *)
(* construction adds the new Option at the end of each of its target keys  *)
(* and nowhere else; so every key's sequence is in construction order.     *)
AppendOnlyInOrder ==
    /\ [](\A k \in DOMAIN _options : Sorted(_options[k]))
    /\ [][/\ \A k \in DOMAIN _options :
                k \in DOMAIN _options' /\ IsPrefix(_options[k], _options'[k])
          /\ Len(objs') > Len(objs) =>
                LET o == Len(objs')
                    targets == IF declared'[o].tags.items = <<>> THEN {WILDCARD}
                               ELSE Range(declared'[o].tags.items)
                IN  \A k \in DOMAIN _options' :
                        LET old == SeqOf(k)
                            new == _options'[k]
                        IN  /\ \A i \in (Len(old) + 1)..Len(new) : new[i] = o
                            /\ (k \in targets) <=> (Len(new) > Len(old))
         ]_vars

AppendOnlyInOrderWitness ==
    /\ Len(objs) = NumShipped + 2
    /\ SeqOf("ql") = <<4, 5, 6, 8, 9>>
    /\ SeqOf("other") = <<9>>

(* C6, as claimed: an Option constructed with two distinct tags a and b    *)
(* appears in get({a}), in get({b}), and exactly twice in get({a, b}).     *)
TwoTagsYieldedTwice ==
    PassDone(1) =>
        \A o \in 1..baseN :
            Cardinality(TagSetOf(o)) = 2 =>
                /\ (Len(req) = 1 /\ req[1] \in TagSetOf(o)) => o \in Range(out[1])
                /\ (Len(req) = 2 /\ Range(req) = TagSetOf(o)) => Count(o, out[1]) = 2

(* C6, amended: an Option constructed with a tags list of exactly two      *)
(* distinct tags a and b, neither of them the wildcard, appears in         *)
(* get({a}), in get({b}), and exactly twice in get({a, b}).                *)
TwoPlainTagsYieldedTwice ==
    PassDone(1) =>
        \A o \in 1..baseN :
            (Len(ItemsOf(o)) = 2 /\ Cardinality(TagSetOf(o)) = 2
                    /\ WILDCARD \notin TagSetOf(o)) =>
                /\ (Len(req) = 1 /\ req[1] \in TagSetOf(o)) => o \in Range(out[1])
                /\ (Len(req) = 2 /\ Range(req) = TagSetOf(o)) => Count(o, out[1]) = 2

TwoPlainTagsYieldedTwiceWitness ==
    /\ PassDone(1)
    /\ req = <<"other", "ql">>
    /\ \E o \in 1..baseN : ItemsOf(o) = <<"ql", "other">> /\ Count(o, out[1]) = 2

(* C7: no registry operation raises, and with the registry unchanged since *)
(* the call, get(T) for T made only of tags no Option was declared with    *)
(* (the empty T included) yields exactly the wildcard sequence: the        *)
(* Options whose declaration targets the wildcard, in declaration order.   *)
RetrievalNeverFails ==
    /\ ~raised
    /\ (gen.status # "none" /\ PassDone(1) /\ Quiet
            /\ (\A i \in 1..Len(req) : Undeclared(req[i]))) =>
          /\ out[1] = SeqOf(WILDCARD)
          /\ Sorted(out[1])
          /\ Range(out[1]) = {o \in 1..Len(declared) : WILDCARD \in TargetsOf(o)}

RetrievalNeverFailsWitness ==
    /\ PassDone(1) /\ Quiet /\ ~raised
    /\ req = <<"other">>
    /\ Undeclared("other")
    /\ Len(out[1]) = 2

(* C8: every add_to call makes exactly one add_argument call on its        *)
(* parser, with the spellings and directives the Option was constructed    *)
(* with; it changes neither the Option objects nor the registry, so every  *)
(* later add_to of the same Option forwards the same declaration.          *)
AddToForwardsDeclaration ==
    /\ [](/\ \A o \in 1..Len(objs) :
                objs[o] = [args |-> declared[o].args, kwargs |-> declared[o].kwargs]
          /\ \A p \in Parsers :
                /\ Len(parsers[p]) = Len(applied[p])
                /\ \A i \in 1..Len(applied[p]) :
                      parsers[p][i] = [args   |-> declared[applied[p][i]].args,
                                       kwargs |-> declared[applied[p][i]].kwargs])
    /\ [][applied' # applied =>
            /\ _options' = _options /\ objs' = objs
            /\ \E p \in Parsers :
                  /\ Len(parsers'[p]) = Len(parsers[p]) + 1
                  /\ \A q \in Parsers \ {p} : parsers'[q] = parsers[q]
         ]_vars

AddToForwardsDeclarationWitness ==
    /\ applied["p1"] = <<7>>
    /\ applied["p2"] = <<7>>
    /\ parsers["p1"] = parsers["p2"]
    /\ parsers["p1"][1] = [args |-> <<"--trap-output">>,
                           kwargs |-> {<<"type", "_abspath">>, <<"required", "True">>}]

(* C9: in the registry module import leaves, for every set T of the four   *)
(* shipped tags, get(T) yields --verbose first and then, per requested     *)
(* tag, exactly the shipped Options of that tag, each once, contiguous     *)
(* and in declaration order.                                               *)
ShippedByTag(t) ==
    CASE t = "schema"   -> <<"--schema">>
      [] t = "dbscheme" -> <<"--dbscheme">>
      [] t = "ql"       -> <<"--ql-output", "--ql-stub-output", "--codeql-binary">>
      [] t = "trap"     -> <<"--trap-output">>

ShippedRetrieval ==
    (gen.status # "none" /\ PassDone(1)) =>
        [i \in 1..Len(out[1]) |-> objs[out[1][i]].args[1]]
            = <<"--verbose">> \o Flatten([j \in 1..Len(req) |-> ShippedByTag(req[j])])

ShippedRetrievalWitness ==
    /\ PassDone(1)
    /\ req = <<"trap", "ql">>
    /\ out[1] = <<1, 7, 4, 5, 6>>

(* C10: an Option constructed after get(T) returned is yielded by the      *)
(* first iteration of the result once for each position of the tag list    *)
(* ('*' first, then T as given at the call) that names one of its keys and *)
(* that the iteration had not yet moved past when it was constructed; the  *)
(* positions already passed contribute nothing.                            *)
LazyRegistryReads ==
    PassDone(1) =>
        \A i \in 1..Len(ctorAt) :
            LET o == baseN + i
                from == IF ctorAt[i] = 0 THEN 1 ELSE ctorAt[i]
                keys == IF ItemsOf(o) = <<>> THEN <<WILDCARD>> ELSE ItemsOf(o)
                tags == <<WILDCARD>> \o req
            IN  Count(o, out[1]) =
                    Cardinality({jk \in (from..Len(tags)) \X (1..Len(keys)) :
                                    tags[jk[1]] = keys[jk[2]]})

LazyRegistryReadsWitness ==
    /\ PassDone(1)
    /\ req = <<"ql", "other">>
    /\ Len(ctorAt) = 2
    /\ ctorAt = <<2, 3>>
    /\ ItemsOf(baseN + 1) = <<"ql", "other">> /\ Count(baseN + 1, out[1]) = 2
    /\ ItemsOf(baseN + 2) = <<"ql">> /\ (baseN + 2) \notin Range(out[1])

====
